---- MODULE Spec2Model ----
(***************************************************************************)
(* A model of the ray tracer bamode/ray-trace: the ray/sphere              *)
(* intersection, the closest-hit search of the hit list, the materials,     *)
(* the recursive integrator ray_color (as a function, and call by call),    *)
(* the tone map write_color_to_pixel_buffer and the render pipeline of      *)
(* main (pixel buffer, scanline tasks, PPM output).                         *)
(*                                                                         *)
(* Numbers.  An f64 is modelled as a fraction <<n, d>> in lowest terms     *)
(* with d >= 0.  d = 0 gives the IEEE special values: <<1, 0>> is +inf,    *)
(* <<-1, 0>> is -inf and <<0, 0>> is NaN, and the comparison operators     *)
(* answer FALSE on NaN as the hardware does.  As an f64 carries 53 bits,   *)
(* a fraction carries 15: a result whose numerator or denominator exceeds  *)
(* Precision is rounded to the last convergent of its continued fraction   *)
(* that fits, a result of magnitude Precision or more to an integer, and a *)
(* magnitude above Magnitude is an infinity.  Sums, products and quotients *)
(* of the small fractions the inputs are drawn from are exact.             *)
(* The square root is exact on squares of fractions and is otherwise       *)
(* rounded down to a multiple of a power of 1/2, 1/SqrtScale at the        *)
(* finest.  Negative zero is not modelled.                                 *)
(***************************************************************************)
EXTENDS Integers, Sequences, FiniteSets, TLC

VARIABLES
    \* ---- a hit query (hit.rs, sphere.rs) ----
    world,      \* HitList.inner: the sequence of spheres
    ray,        \* the ray of the query
    t_min,      \* lower end of the interval
    t_max,      \* upper end of the interval
    rec,        \* the caller's hit record (the &mut argument)
    ret,        \* the boolean the last query returned
    \* ---- ray_color and write_color_to_pixel_buffer (render.rs) ----
    depth,      \* the bounce budget
    rng,        \* the thread's generator: the variates to come and the position in them
    color,      \* the color returned / the pixel's accumulated color
    samples,    \* samples per pixel
    rgb,        \* the three bytes of a pixel
    \* ---- one pixel of the render loop (main.rs, camera.rs) ----
    camera,     \* the task's Camera
    width,      \* image width
    height,     \* image height
    col,        \* i, the pixel's column
    row,        \* j, the band's index
    primary,    \* the samples' <<u, v, ray>>, in order
    \* ---- main (main.rs) ----
    pc,         \* main's position
    pixels,     \* the pixel buffer
    file,       \* the lines written to the output file so far
    bands,      \* per band: its bytes' place in the buffer and how far it is
    workers,    \* per pool thread: its band, column and camera, and its generator
    written,    \* per buffer byte: how many times it has been stored to
    computed,   \* per pixel <<i, j>> done: the bytes computed for it
    \* ---- ray_color, call by call (render.rs) ----
    scatter,    \* the Scatter the material returned last
    stack,      \* the invocations of ray_color waiting for their recursive call
    calls,      \* how many hit queries, scatter calls and recursive calls so far
    \* ---- one call of a function of its arguments alone (vec.rs, camera.rs) ----
    args,       \* the arguments of the call
    result,     \* what the call returned
    op          \* which operation ran last

hitVars == <<world, ray, t_min, t_max, rec, ret>>

colorVars == <<depth, rng, color, samples, rgb>>

pixelVars == <<camera, width, height, col, row, primary>>

mainVars == <<pc, pixels, file, bands, workers, written, computed>>

traceVars == <<scatter, stack, calls>>

callVars == <<args, result>>

vars == <<hitVars, colorVars, pixelVars, mainVars, traceVars, callVars, op>>

-----------------------------------------------------------------------------
(* f64 arithmetic *)

Abs(x) == IF x < 0 THEN -x ELSE x

Sign(x) == IF x < 0 THEN -1 ELSE IF x > 0 THEN 1 ELSE 0

\* the largest denominator a fraction carries: 2^15 - 1
Precision == 128 * 256 - 1

\* the largest numerator a fraction carries: 2^30 - 1
Magnitude == 1024 * 1024 * 1024 - 1

\* the last convergent of the continued fraction of n/d (n >= 0, d > 0) whose
\* numerator is at most hmax and whose denominator is at most kmax; h1/k1 and
\* h0/k0 are the two convergents before it
RECURSIVE Convergent(_, _, _, _, _, _, _, _)
Convergent(n, d, h1, k1, h0, k0, hmax, kmax) ==
    IF \/ h1 > 0 /\ n \div d > (hmax - h0) \div h1
       \/ k1 > 0 /\ n \div d > (kmax - k0) \div k1
    THEN <<h1, k1>>
    ELSE IF n % d = 0 THEN <<(n \div d) * h1 + h0, (n \div d) * k1 + k0>>
    ELSE Convergent(d, n % d, (n \div d) * h1 + h0, (n \div d) * k1 + k0, h1, k1,
                    hmax, kmax)

Signed(sg, f) == <<sg * f[1], f[2]>>

\* f in lowest terms, rounded to numerator <= hmax and denominator <= kmax;
\* a magnitude above hmax is an infinity
Fit(f, hmax, kmax) ==
    IF f[2] = 0 \/ (Abs(f[1]) <= hmax /\ f[2] <= kmax) THEN f
    ELSE Signed(Sign(f[1]), Convergent(Abs(f[1]), f[2], 1, 0, 0, 1, hmax, kmax))

\* the f64 that stands for n/d: n/d in lowest terms (the last convergent of
\* all), rounded to the precision carried: numerator and denominator at most
\* Precision, or an integer when the magnitude is Precision or more; d = 0
\* gives the special values
Norm(n, d) ==
    IF d = 0 THEN <<Sign(n), 0>>
    ELSE IF Abs(n) \div Abs(d) >= Precision
    THEN Signed(Sign(n) * Sign(d), Convergent(Abs(n), Abs(d), 1, 0, 0, 1, Magnitude, 1))
    ELSE Signed(Sign(n) * Sign(d),
                Convergent(Abs(n), Abs(d), 1, 0, 0, 1, Precision, Precision))

Num(n) == <<n, 1>>

Frac(n, d) == Norm(n, d)

Zero == <<0, 1>>

One == <<1, 1>>

INFINITY == <<1, 0>>

NaN == <<0, 0>>

IsNaN(a) == a = NaN

IsFinite(a) == a[2] # 0

FNeg(a) == <<-a[1], a[2]>>

\* the largest k with k * k <= n, by bisection on lo <= k < hi
RECURSIVE ISqrtIter(_, _, _)
ISqrtIter(n, lo, hi) ==
    IF hi - lo <= 1 THEN lo
    ELSE LET mid == (lo + hi) \div 2
         IN  IF mid * mid <= n THEN ISqrtIter(n, mid, hi)
             ELSE ISqrtIter(n, lo, mid)

ISqrt(n) == ISqrtIter(n, 0, (IF n < 46340 THEN n ELSE 46340) + 1)

IsSquare(n) == ISqrt(n) * ISqrt(n) = n

\* the integer part of the magnitude of a finite a
IntPart(a) == Abs(a[1]) \div a[2]

\* a and b rounded so that the product of their denominators is at most room,
\* the one of the smaller denominator first and the other to the denominator
\* that leaves: the operands of an operation whose exact result has more
\* digits than are carried
FitPair(a, b, room) ==
    IF a[2] <= b[2]
    THEN << Fit(a, Magnitude, ISqrt(room)),
            Fit(b, Magnitude, room \div Fit(a, Magnitude, ISqrt(room))[2]) >>
    ELSE << Fit(a, Magnitude, room \div Fit(b, Magnitude, ISqrt(room))[2]),
            Fit(b, Magnitude, ISqrt(room)) >>

\* the room two operands of a sum or a quotient have
Room(a, b) ==
    Magnitude \div ((IF IntPart(a) < IntPart(b) THEN IntPart(b) ELSE IntPart(a)) + 1)

AddOver(a, b) == Norm(a[1] * b[2] + b[1] * a[2], a[2] * b[2])

FAdd(a, b) ==
    IF IsNaN(a) \/ IsNaN(b) THEN NaN
    ELSE IF a[2] = 0 THEN (IF b[2] = 0 /\ a # b THEN NaN ELSE a)
    ELSE IF b[2] = 0 THEN b
    ELSE IF Abs(a[1]) <= Magnitude \div b[2] /\ Abs(b[1]) <= Magnitude \div a[2]
    THEN AddOver(a, b)
    ELSE AddOver(FitPair(a, b, Room(a, b))[1], FitPair(a, b, Room(a, b))[2])

FSub(a, b) == FAdd(a, FNeg(b))

MulOver(a, b) == Norm(a[1] * b[1], a[2] * b[2])

FMul(a, b) ==
    IF IsNaN(a) \/ IsNaN(b) THEN NaN
    ELSE IF a[2] = 0 \/ b[2] = 0 THEN <<Sign(a[1]) * Sign(b[1]), 0>>
    ELSE IF a[1] = 0 \/ b[1] = 0 THEN Zero
    ELSE IF Abs(a[1]) <= Magnitude \div Abs(b[1]) THEN MulOver(a, b)
    ELSE IF IntPart(a) + 1 > Magnitude \div (IntPart(b) + 1)
    THEN <<Sign(a[1]) * Sign(b[1]), 0>>
    ELSE MulOver(FitPair(a, b, Magnitude \div ((IntPart(a) + 1) * (IntPart(b) + 1)))[1],
                 FitPair(a, b, Magnitude \div ((IntPart(a) + 1) * (IntPart(b) + 1)))[2])

DivOver(a, b) == Norm(a[1] * b[2], a[2] * b[1])

FDiv(a, b) ==
    IF IsNaN(a) \/ IsNaN(b) \/ (a[2] = 0 /\ b[2] = 0) THEN NaN
    ELSE IF a[2] = 0 THEN <<(IF b[1] < 0 THEN -a[1] ELSE a[1]), 0>>
    ELSE IF b[2] = 0 THEN Zero
    ELSE IF b[1] = 0 THEN <<Sign(a[1]), 0>>
    ELSE IF Abs(a[1]) <= Magnitude \div b[2] /\ a[2] <= Magnitude \div Abs(b[1])
    THEN DivOver(a, b)
    ELSE DivOver(FitPair(a, b, Room(a, b))[1], FitPair(a, b, Room(a, b))[2])

\* a < b for finite a and b: by the integer parts, then by the remainders
LtOver(a, b) ==
    IF a[1] \div a[2] # b[1] \div b[2] THEN a[1] \div a[2] < b[1] \div b[2]
    ELSE (a[1] % a[2]) * b[2] < (b[1] % b[2]) * a[2]

\* a < b on f64: FALSE when either side is NaN
FLt(a, b) ==
    IF IsNaN(a) \/ IsNaN(b) THEN FALSE
    ELSE IF a[2] = 0 \/ b[2] = 0
    THEN (IF a[2] = 0 /\ b[2] = 0 THEN a[1] < b[1]
          ELSE IF a[2] = 0 THEN a[1] < 0 ELSE b[1] > 0)
    ELSE LtOver(a, b)

FGt(a, b) == FLt(b, a)

FLe(a, b) == ~IsNaN(a) /\ ~IsNaN(b) /\ ~FLt(b, a)

\* the finest resolution of an inexact square root: 2^-11
SqrtScale == 2048

\* the resolution 1/s of the square root of a number of integer part m: the
\* finest at which the number keeps a denominator of 128
RECURSIVE Resolution(_, _)
Resolution(m, s) ==
    IF s = 1 \/ m + 1 <= (Magnitude \div (s * s)) \div 64 THEN s
    ELSE Resolution(m, s \div 2)

\* the square root of a, rounded down to a multiple of 1/s, a being rounded
\* first to the numerator that leaves room for it
RootOf(a, s) ==
    Norm(ISqrt((Fit(a, (Magnitude \div (s * s)) * 2, Precision)[1] * s * s)
                  \div Fit(a, (Magnitude \div (s * s)) * 2, Precision)[2]), s)

\* f64::sqrt: NaN below zero, exact on squares of fractions, else rounded down
FSqrt(a) ==
    IF IsNaN(a) \/ a[1] < 0 THEN NaN
    ELSE IF a[2] = 0 THEN INFINITY
    ELSE IF IsSquare(a[1]) /\ IsSquare(a[2]) THEN <<ISqrt(a[1]), ISqrt(a[2])>>
    ELSE RootOf(a, Resolution(IntPart(a), SqrtScale))

-----------------------------------------------------------------------------
(* Vec3 (math/vec.rs); Point and Color are aliases of it *)

Vec3(x, y, z) == [x |-> x, y |-> y, z |-> z]

V(x, y, z) == Vec3(Num(x), Num(y), Num(z))

ORIGIN == V(0, 0, 0)

X_HAT == V(1, 0, 0)

VAdd(a, b) == Vec3(FAdd(a.x, b.x), FAdd(a.y, b.y), FAdd(a.z, b.z))

VSub(a, b) == Vec3(FSub(a.x, b.x), FSub(a.y, b.y), FSub(a.z, b.z))

VNeg(a) == Vec3(FNeg(a.x), FNeg(a.y), FNeg(a.z))

VScale(a, k) == Vec3(FMul(a.x, k), FMul(a.y, k), FMul(a.z, k))

VMul(a, b) == Vec3(FMul(a.x, b.x), FMul(a.y, b.y), FMul(a.z, b.z))

VDiv(a, k) == Vec3(FDiv(a.x, k), FDiv(a.y, k), FDiv(a.z, k))

Dot(a, b) == FAdd(FAdd(FMul(a.x, b.x), FMul(a.y, b.y)), FMul(a.z, b.z))

LengthSquared(a) == FAdd(FAdd(FMul(a.x, a.x), FMul(a.y, a.y)), FMul(a.z, a.z))

Length(a) == FSqrt(LengthSquared(a))

UnitVector(a) == VDiv(a, Length(a))

-----------------------------------------------------------------------------
(* Ray (math/ray.rs) *)

Ray(origin, dir) == [origin |-> origin, dir |-> dir]

At(r, t) == VAdd(r.origin, VScale(r.dir, t))

-----------------------------------------------------------------------------
(* Materials (material.rs): a closed variant *)

Lambertian(albedo) == [kind |-> "Lambertian", albedo |-> albedo]

Metal(albedo) == [kind |-> "Metal", albedo |-> albedo]

Dielectric(ir) == [kind |-> "Dielectric", ir |-> ir]

MatKindDefault == Lambertian(V(0, 0, 0))

-----------------------------------------------------------------------------
(* HitRecord (hit.rs) *)

None == <<>>

Some(b) == <<b>>

HitRecord(p, normal, t, material, front_face) ==
    [p |-> p, normal |-> normal, t |-> t, material |-> material,
     front_face |-> front_face]

HitRecordEmpty == HitRecord(ORIGIN, X_HAT, Zero, MatKindDefault, None)

\* hit.rs:33-37: the record once front_face is known
FaceNormal(r, front, outward_normal) ==
    [r EXCEPT !.front_face = Some(front),
              !.normal = IF front THEN outward_normal ELSE VNeg(outward_normal)]

\* set_face_normal with the comparison's sense inverted
SetFaceNormal_flipped(r, incoming, outward_normal) ==
    FaceNormal(r, FGt(Dot(incoming.dir, outward_normal), Zero), outward_normal)

\* set_face_normal storing the normal and leaving front_face as it was
SetFaceNormal_unset(r, incoming, outward_normal) ==
    [r EXCEPT !.normal = IF FLt(Dot(incoming.dir, outward_normal), Zero)
                         THEN outward_normal ELSE VNeg(outward_normal)]

\* HitRecord::set_face_normal
SetFaceNormal(r, incoming, outward_normal) ==
    FaceNormal(r, FLt(Dot(incoming.dir, outward_normal), Zero), outward_normal)

-----------------------------------------------------------------------------
(* Sphere (sphere.rs) *)

Sphere(center, r, material) == [center |-> center, r |-> r, material |-> material]

\* sphere.rs:36: a = |dir|^2
QuadA(r) == LengthSquared(r.dir)

\* sphere.rs:35,37: half_b = oc . dir
QuadHalfB(s, r) == Dot(VSub(r.origin, s.center), r.dir)

\* sphere.rs:35,38: c = |oc|^2 - r^2
QuadC(s, r) == FSub(LengthSquared(VSub(r.origin, s.center)), FMul(s.r, s.r))

Square(x) == FMul(x, x)

\* sphere.rs:40
Discriminant(s, r) == FSub(Square(QuadHalfB(s, r)), FMul(QuadA(r), QuadC(s, r)))

\* the range test with the upper end of the interval open
OutOfRange_open(root, lo, hi) == FLt(root, lo) \/ FLe(hi, root)

\* sphere.rs:48 and :50: root < t_min || t_max < root
OutOfRange(root, lo, hi) == FLt(root, lo) \/ FLt(hi, root)

\* sphere.rs:47: (-half_b - sqrtd) / a
RootMinus(a, half_b, sqrtd) == FDiv(FSub(FNeg(half_b), sqrtd), a)

\* sphere.rs:49: (-half_b + sqrtd) / a
RootPlus(a, half_b, sqrtd) == FDiv(FAdd(FNeg(half_b), sqrtd), a)

\* sphere.rs:48-53: the first root unless it is out of range, then the second;
\* None for `return false`
PickRoot(first, second, lo, hi) ==
    IF OutOfRange(first, lo, hi)
    THEN (IF OutOfRange(second, lo, hi) THEN None ELSE Some(second))
    ELSE Some(first)

\* sphere.rs:46-53 with the far root tried first
NearestRootOf_far_first(a, half_b, sqrtd, lo, hi) ==
    PickRoot(RootPlus(a, half_b, sqrtd), RootMinus(a, half_b, sqrtd), lo, hi)

\* sphere.rs:46-53
NearestRootOf(a, half_b, sqrtd, lo, hi) ==
    PickRoot(RootMinus(a, half_b, sqrtd), RootPlus(a, half_b, sqrtd), lo, hi)

NearestRoot(s, r, lo, hi) ==
    NearestRootOf(QuadA(r), QuadHalfB(s, r), FSqrt(Discriminant(s, r)), lo, hi)

\* sphere.rs:57-65: the record of a hit at parameter t, point p
RecordHit(s, r, t, p, hit_record) ==
    [SetFaceNormal(
         [hit_record EXCEPT !.p = p,
                            !.normal = UnitVector(VDiv(VSub(p, s.center), s.r)),
                            !.t = t],
         r, VDiv(VSub(p, s.center), s.r))
     EXCEPT !.material = s.material]

\* sphere.rs:55-66
HitAtRoot(s, r, found, hit_record) ==
    IF found = None THEN [ret |-> FALSE, rec |-> hit_record]
    ELSE [ret |-> TRUE, rec |-> RecordHit(s, r, found[1], At(r, found[1]), hit_record)]

\* Sphere::hit: [ret, rec], rec being the &mut record after the call
SphereHit(s, r, lo, hi, hit_record) ==
    IF FLt(Discriminant(s, r), Zero) THEN [ret |-> FALSE, rec |-> hit_record]
    ELSE HitAtRoot(s, r, NearestRoot(s, r, lo, hi), hit_record)

-----------------------------------------------------------------------------
(* HitList (hit.rs) *)

\* hit.rs:97 with every primitive queried over the whole interval
LoopInterval_whole(st, hi) == hi

\* hit.rs:97: the upper end handed to the next primitive
LoopInterval(st, hi) == st.closest_so_far

\* hit.rs:97-104 with *rec = temp_rec outside the if
LoopBody_always(st, q) ==
    IF q.ret
    THEN [temp_rec |-> q.rec, hit_anything |-> TRUE,
          closest_so_far |-> q.rec.t, rec |-> q.rec]
    ELSE [st EXCEPT !.temp_rec = q.rec, !.rec = q.rec]

\* hit.rs:97-104: the loop's variables after one primitive answered q
LoopBody(st, q) ==
    IF q.ret
    THEN [temp_rec |-> q.rec, hit_anything |-> TRUE,
          closest_so_far |-> q.rec.t, rec |-> q.rec]
    ELSE [st EXCEPT !.temp_rec = q.rec]

\* hit.rs:96-105: the loop over primitives k..Len(inner); each turn's variables
\* are worked out before the next turn begins
RECURSIVE HitListLoop(_, _, _, _, _, _)
HitListLoop(inner, k, r, lo, hi, st) ==
    IF k > Len(inner) THEN st
    ELSE CHOOSE end \in
             { HitListLoop(inner, k + 1, r, lo, hi, next) :
                 next \in {LoopBody(st, SphereHit(inner[k], r, lo, LoopInterval(st, hi),
                                                  st.temp_rec))} } : TRUE

\* hit.rs:107, returning false whatever was hit
LoopResult_missed(st) == [ret |-> FALSE, rec |-> st.rec]

\* hit.rs:107: what the caller sees
LoopResult(st) == [ret |-> st.hit_anything, rec |-> st.rec]

\* HitList::hit: [ret, rec]
HitListHit(inner, r, lo, hi, caller_rec) ==
    LoopResult(HitListLoop(inner, 1, r, lo, hi,
                   [temp_rec |-> HitRecordEmpty, hit_anything |-> FALSE,
                    closest_so_far |-> hi, rec |-> caller_rec]))

-----------------------------------------------------------------------------
(* The thread-local generator (rand::thread_rng): a tape of the variates in *)
(* [0, 1) it will hand out, read round and round                            *)

Rng(tape) == [tape |-> tape, pos |-> 1]

\* the k-th variate from here, k = 0 being the next
Peek(g, k) == g.tape[((g.pos - 1 + k) % Len(g.tape)) + 1]

\* the generator after k draws
Skip(g, k) == [g EXCEPT !.pos = ((g.pos - 1 + k) % Len(g.tape)) + 1]

\* render.rs:19-22: random_f64 on the variate u
RandomF64(min, max, u) == FAdd(min, FMul(FSub(max, min), u))

\* Vec3::random
VecRandom(min, max, g) ==
    Vec3(RandomF64(min, max, Peek(g, 0)), RandomF64(min, max, Peek(g, 1)),
         RandomF64(min, max, Peek(g, 2)))

\* Vec3::random_in_unit_sphere: [val, rng]
RECURSIVE RandomInUnitSphere(_)
RandomInUnitSphere(g) ==
    IF ~FLt(LengthSquared(VecRandom(Num(-1), One, g)), One)
    THEN RandomInUnitSphere(Skip(g, 3))
    ELSE [val |-> VecRandom(Num(-1), One, g), rng |-> Skip(g, 3)]

DiskRandom(g) ==
    Vec3(RandomF64(Num(-1), One, Peek(g, 0)), RandomF64(Num(-1), One, Peek(g, 1)), Zero)

\* Vec3::random_in_unit_disk: [val, rng]
RECURSIVE RandomInUnitDisk(_)
RandomInUnitDisk(g) ==
    IF FLt(LengthSquared(DiskRandom(g)), One)
    THEN [val |-> DiskRandom(g), rng |-> Skip(g, 2)]
    ELSE RandomInUnitDisk(Skip(g, 2))

UnitOf(d) == [val |-> UnitVector(d.val), rng |-> d.rng]

\* Vec3::random_unit_vector: [val, rng]
RandomUnitVector(g) == UnitOf(RandomInUnitSphere(g))

-----------------------------------------------------------------------------
(* Vec3, continued: the operations of the materials *)

FAbs(a) == <<Abs(a[1]), a[2]>>

\* f64::min: the one that is a number when the other is not
FMin(a, b) == IF IsNaN(a) THEN b ELSE IF IsNaN(b) THEN a ELSE IF FLt(b, a) THEN b ELSE a

\* vec.rs:54 has 1.0e-8, below what a fraction carries: the least positive one
NearZeroBound == <<1, Precision>>

NearZero(v) ==
    /\ FLt(FAbs(v.x), NearZeroBound)
    /\ FLt(FAbs(v.y), NearZeroBound)
    /\ FLt(FAbs(v.z), NearZeroBound)

\* Vec3::reflect: *self - n * 2.0 * self.dot(&n)
Reflect(v, n) == VSub(v, VScale(VScale(n, Num(2)), Dot(v, n)))

\* vec.rs:144: -self.dot(&n).min(1.0), the minus applied last
NegMinDot(v, n) == FNeg(FMin(Dot(v, n), One))

RefractPerp(v, n, cos_theta, etai_over_etat) ==
    VScale(VAdd(v, VScale(n, cos_theta)), etai_over_etat)

RefractParallel(n, r_out_perp) ==
    VScale(VScale(n, Num(-1)), FSqrt(FAbs(FSub(One, LengthSquared(r_out_perp)))))

RefractSum(n, r_out_perp) == VAdd(r_out_perp, RefractParallel(n, r_out_perp))

\* Vec3::refract
Refract(v, n, etai_over_etat) ==
    RefractSum(n, RefractPerp(v, n, NegMinDot(v, n), etai_over_etat))

-----------------------------------------------------------------------------
(* Material::scatter (material.rs): [is_scattered, attenuation, scattered, rng] *)

Scatter(is_scattered, attenuation, scattered, g) ==
    [is_scattered |-> is_scattered, attenuation |-> attenuation,
     scattered |-> scattered, rng |-> g]

\* material.rs:40: the normal takes the place of a direction near zero
ScatterDirection(d, normal) == IF NearZero(d) THEN normal ELSE d

LambertianTowards(m, hit_record, ruv) ==
    Scatter(TRUE, m.albedo,
            Ray(hit_record.p, ScatterDirection(VAdd(hit_record.normal, ruv.val),
                                               hit_record.normal)),
            ruv.rng)

\* Lambertian::scatter
LambertianScatter(m, r_in, hit_record, g) ==
    LambertianTowards(m, hit_record, RandomUnitVector(g))

\* material.rs:70 with every reflection counted as scattered
MetalTowards_always(m, hit_record, reflected, g) ==
    Scatter(TRUE, m.albedo, Ray(hit_record.p, reflected), g)

MetalTowards(m, hit_record, reflected, g) ==
    Scatter(FGt(Dot(reflected, hit_record.normal), Zero), m.albedo,
            Ray(hit_record.p, reflected), g)

\* Metal::scatter
MetalScatter(m, r_in, hit_record, g) ==
    MetalTowards(m, hit_record, Reflect(UnitVector(r_in.dir), hit_record.normal), g)

Pow5(x) == FMul(FMul(FMul(x, x), FMul(x, x)), x)

Schlick(r0_sq, cos) == FAdd(r0_sq, FMul(FSub(One, r0_sq), Pow5(FSub(One, cos))))

\* Dielectric::reflectance
Reflectance(cos, ref_idx) ==
    Schlick(Square(FDiv(FSub(One, ref_idx), FAdd(One, ref_idx))), cos)

\* Option::unwrap
Unwrap(o) == o[1]

\* material.rs:100-102 with the two sides of the surface taken for each other
RefractionRatio_swapped(m, hit_record) ==
    IF Unwrap(hit_record.front_face) THEN m.ir ELSE FDiv(One, m.ir)

\* material.rs:100-102
RefractionRatio(m, hit_record) ==
    IF Unwrap(hit_record.front_face) THEN FDiv(One, m.ir) ELSE m.ir

\* material.rs:108: refraction_ratio * sin_theta > 1.0
CannotRefract(refraction_ratio, cos_theta) ==
    FGt(FMul(refraction_ratio, FSqrt(FSub(One, FMul(cos_theta, cos_theta)))), One)

\* material.rs:109-110: the variate is drawn only when refraction is possible
DielectricChoice(hit_record, unit_dir, refraction_ratio, cos_theta, g) ==
    IF CannotRefract(refraction_ratio, cos_theta)
    THEN Scatter(TRUE, Vec3(Frac(98, 100), Frac(98, 100), Frac(98, 100)),
                 Ray(hit_record.p, Reflect(unit_dir, hit_record.normal)), g)
    ELSE Scatter(TRUE, Vec3(Frac(98, 100), Frac(98, 100), Frac(98, 100)),
                 Ray(hit_record.p,
                     IF FGt(Reflectance(cos_theta, refraction_ratio), Peek(g, 0))
                     THEN Reflect(unit_dir, hit_record.normal)
                     ELSE Refract(unit_dir, hit_record.normal, refraction_ratio)),
                 Skip(g, 1))

DielectricFrom(m, hit_record, unit_dir, g) ==
    DielectricChoice(hit_record, unit_dir, RefractionRatio(m, hit_record),
                     NegMinDot(unit_dir, hit_record.normal), g)

\* Dielectric::scatter
DielectricScatter(m, r_in, hit_record, g) ==
    DielectricFrom(m, hit_record, UnitVector(r_in.dir), g)

\* Material for MatKind
MatScatter(m, r_in, hit_record, g) ==
    CASE m.kind = "Lambertian" -> LambertianScatter(m, r_in, hit_record, g)
      [] m.kind = "Metal" -> MetalScatter(m, r_in, hit_record, g)
      [] m.kind = "Dielectric" -> DielectricScatter(m, r_in, hit_record, g)

-----------------------------------------------------------------------------
(* ray_color (render.rs): [color, rng] *)

\* render.rs:84-88: the sky gradient at height t
SkyAt(t) ==
    VAdd(VScale(V(1, 1, 1), FSub(One, t)),
         VScale(Vec3(Frac(1, 2), Frac(7, 10), One), t))

Sky(r) == SkyAt(FMul(FAdd(UnitVector(r.dir).y, One), Frac(1, 2)))

\* render.rs:71 with only a negative depth ending the recursion
DepthExhausted_negative(d) == d < 0

\* render.rs:71
DepthExhausted(d) == d <= 0

\* render.rs:80 with the attenuation left out
Attenuate_dropped(c, attenuation) == c

\* render.rs:80: the colour that comes back, times the attenuation
Attenuate(c, attenuation) == [color |-> VMul(c.color, attenuation), rng |-> c.rng]

RECURSIVE RayColor(_, _, _, _)

\* render.rs:79-82
Bounce(w, d, sc) ==
    IF sc.is_scattered
    THEN Attenuate(RayColor(sc.scattered, w, d - 1, sc.rng), sc.attenuation)
    ELSE [color |-> V(0, 0, 0), rng |-> sc.rng]

\* render.rs:76-88
Shade(r, w, d, g, h) ==
    IF h.ret THEN Bounce(w, d, MatScatter(h.rec.material, r, h.rec, g))
    ELSE [color |-> Sky(r), rng |-> g]

\* ray_color
RayColor(r, w, d, g) ==
    IF DepthExhausted(d) THEN [color |-> V(0, 0, 0), rng |-> g]
    ELSE Shade(r, w, d, g, HitListHit(w, r, Frac(1, 1000), INFINITY, HitRecordEmpty))

-----------------------------------------------------------------------------
(* write_color_to_pixel_buffer (render.rs) *)

\* render.rs:25-33
Clamp(x, min, max) == IF FLt(x, min) THEN min ELSE IF FGt(x, max) THEN max ELSE x

\* `as u8`: towards zero, saturating, NaN to 0
AsU8(x) ==
    IF IsNaN(x) \/ FLt(x, Zero) THEN 0
    ELSE IF FGt(x, Num(255)) THEN 255
    ELSE x[1] \div x[2]

\* render.rs:49: scale = 1.0 / samples_per_pixel as f64
Scale(samples_per_pixel) == FDiv(One, Num(samples_per_pixel))

\* render.rs:50-52 without the square root
Gamma_linear(scale, c) == FMul(scale, c)

\* render.rs:50-52: (scale * c).sqrt()
Gamma(scale, c) == FSqrt(FMul(scale, c))

\* render.rs:54-56
Quantize(c) == AsU8(FMul(Num(256), Clamp(c, Zero, Frac(999, 1000))))

WriteColorToPixelBuffer(c, samples_per_pixel) ==
    << Quantize(Gamma(Scale(samples_per_pixel), c.x)),
       Quantize(Gamma(Scale(samples_per_pixel), c.y)),
       Quantize(Gamma(Scale(samples_per_pixel), c.z)) >>

-----------------------------------------------------------------------------
(* Camera (camera.rs) *)

\* Vec3::cross
Cross(a, b) ==
    Vec3(FSub(FMul(a.y, b.z), FMul(a.z, b.y)),
         FSub(FMul(a.z, b.x), FMul(a.x, b.z)),
         FSub(FMul(a.x, b.y), FMul(a.y, b.x)))

\* (degrees_to_radians(vfov) / 2.0).tan(), for the angles in use
TanHalf(vfov) ==
    CASE vfov = 90 -> One
      [] vfov = 20 -> Frac(1763, 10000)

\* the struct, from the basis and the viewport Camera::new has worked out
CameraOf(origin, w, u, v, viewport_width, viewport_height, aperture, focus_dist) ==
    [ origin |-> origin,
      horizontal |-> VScale(VScale(u, viewport_width), focus_dist),
      vertical |-> VScale(VScale(v, viewport_height), focus_dist),
      ll_corner |->
          VSub(VSub(VSub(origin,
                         VDiv(VScale(VScale(u, viewport_width), focus_dist), Num(2))),
                    VDiv(VScale(VScale(v, viewport_height), focus_dist), Num(2))),
               VScale(w, focus_dist)),
      u |-> u,
      v |-> v,
      lens_radius |-> FDiv(aperture, Num(2)) ]

\* Camera::new
CameraNew(aspect_ratio, vfov, lookfrom, lookat, vup, aperture, focus_dist) ==
    LET w == UnitVector(VSub(lookfrom, lookat))
        u == UnitVector(Cross(vup, w))
    IN  CameraOf(lookfrom, w, u, Cross(w, u),
                 FMul(aspect_ratio, FMul(Num(2), TanHalf(vfov))),
                 FMul(Num(2), TanHalf(vfov)), aperture, focus_dist)

\* camera.rs:61
LensOffset(c, rd) == VAdd(VScale(c.u, rd.x), VScale(c.v, rd.y))

\* camera.rs:62-65 with the offset left out of the direction
RayThrough_from_origin(c, s, t, offset) ==
    Ray(VAdd(c.origin, offset),
        VSub(VAdd(VAdd(c.ll_corner, VScale(c.horizontal, s)), VScale(c.vertical, t)),
             c.origin))

\* camera.rs:62-65
RayThrough(c, s, t, offset) ==
    Ray(VAdd(c.origin, offset),
        VSub(VSub(VAdd(VAdd(c.ll_corner, VScale(c.horizontal, s)),
                       VScale(c.vertical, t)),
                  c.origin),
             offset))

\* Camera::get_ray, on the disk sample d = [val, rng]: [ray, rng]
GetRayWith(c, s, t, d) ==
    [ ray |-> RayThrough(c, s, t, LensOffset(c, VScale(d.val, c.lens_radius))),
      rng |-> d.rng ]

\* the camera's generator is the thread's, like the task's own
GetRay(c, s, t, g) == GetRayWith(c, s, t, RandomInUnitDisk(g))

-----------------------------------------------------------------------------
(* One pixel of a band (main.rs:97-107) *)

\* main.rs:99-100: (k as f64 + u) / (n as f64 - 1.0)
ScreenCoord(k, n, u) == FDiv(FAdd(Num(k), u), FSub(Num(n), One))

\* main.rs:102: pixel_color += the color c = [color, rng] of the ray
Accumulate(px, u, v, r, c) ==
    [ color |-> VAdd(px.color, c.color),
      rng |-> c.rng,
      primary |-> Append(px.primary, <<u, v, r>>) ]

\* main.rs:101-102: the ray is there before ray_color is called on it
Sample(px, c, w, d, u, v) ==
    CHOOSE next \in
        { Accumulate(px, u, v, gr.ray, RayColor(gr.ray, w, d, gr.rng)) :
            gr \in {GetRay(c, u, v, Skip(px.rng, 2))} } : TRUE

\* main.rs:98-103: the n samples left of pixel (i, j), one after the other
RECURSIVE SampleLoop(_, _, _, _, _, _, _, _, _)
SampleLoop(px, n, c, w, d, i, j, wd, ht) ==
    IF n = 0 THEN px
    ELSE CHOOSE end \in
             { SampleLoop(next, n - 1, c, w, d, i, j, wd, ht) :
                 next \in {Sample(px, c, w, d, ScreenCoord(i, wd, Peek(px.rng, 0)),
                                              ScreenCoord(j, ht, Peek(px.rng, 1)))} } : TRUE

\* main.rs:97-104: [color, rng, primary, rgb]
PixelOf(px, n) ==
    [ color |-> px.color, rng |-> px.rng, primary |-> px.primary,
      rgb |-> WriteColorToPixelBuffer(px.color, n) ]

Pixel(c, w, n, d, i, j, wd, ht, g) ==
    PixelOf(SampleLoop([color |-> V(0, 0, 0), rng |-> g, primary |-> <<>>],
                       n, c, w, d, i, j, wd, ht), n)

-----------------------------------------------------------------------------
(* random_scene (main.rs) *)

\* main.rs:124-125 run a and b over -11..11; the model's grid is -GridHalf..GridHalf
GridHalf == 1

\* main.rs:127
CellCenter(a, b, g) ==
    Vec3(FAdd(Num(a), FMul(Frac(9, 10), Peek(g, 1))), Frac(1, 5),
         FAdd(Num(b), FMul(Frac(9, 10), Peek(g, 2))))

\* main.rs:130-145: the list with the cell's sphere pushed, and the generator
\* after the albedo's draws
CellSphere(inner, center, choose_mat, g) ==
    IF FLt(choose_mat, Frac(3, 5))
    THEN [inner |-> Append(inner, Sphere(center, Frac(1, 5),
                       Lambertian(VMul(VecRandom(Zero, One, g),
                                       VecRandom(Zero, One, Skip(g, 3)))))),
          rng |-> Skip(g, 6)]
    ELSE IF FLt(choose_mat, Frac(4, 5))
    THEN [inner |-> Append(inner, Sphere(center, Frac(1, 5),
                       Metal(VecRandom(Frac(1, 5), One, g)))),
          rng |-> Skip(g, 3)]
    ELSE [inner |-> Append(inner, Sphere(center, Frac(1, 5), Dielectric(Frac(3, 2)))),
          rng |-> g]

\* main.rs:126-146: one turn of the inner loop, sc = [inner, rng]
SceneCell(sc, a, b) ==
    IF FGt(Length(VSub(CellCenter(a, b, sc.rng), Vec3(Num(4), Frac(1, 5), Zero))),
           Frac(9, 10))
    THEN CellSphere(sc.inner, CellCenter(a, b, sc.rng), Peek(sc.rng, 0), Skip(sc.rng, 3))
    ELSE [inner |-> sc.inner, rng |-> Skip(sc.rng, 3)]

\* main.rs:124-148: the cells from the n-th on, row by row
RECURSIVE SceneGrid(_, _)
SceneGrid(sc, n) ==
    IF n >= (2 * GridHalf) * (2 * GridHalf) THEN sc
    ELSE CHOOSE end \in
             { SceneGrid(next, n + 1) :
                 next \in {SceneCell(sc, (n \div (2 * GridHalf)) - GridHalf,
                                         (n % (2 * GridHalf)) - GridHalf)} } : TRUE

\* random_scene: the ground, the grid, the three large spheres
RandomScene(g) ==
    SceneGrid([inner |-> << Sphere(V(0, -1000, 0), Num(1000),
                                   Lambertian(Vec3(Frac(5117, 10000), Frac(2539, 10000),
                                                   Frac(977, 10000)))) >>,
               rng |-> g], 0).inner
    \o << Sphere(V(0, 1, 0), Num(1), Dielectric(Frac(3, 2))),
          Sphere(V(-4, 1, 0), Num(1), Lambertian(Vec3(Frac(2, 5), Frac(1, 5), Frac(1, 10)))),
          Sphere(V(4, 1, 0), Num(1), Metal(Vec3(Frac(7, 10), Frac(3, 5), Frac(1, 2)))) >>

-----------------------------------------------------------------------------
(* Hit queries: the inputs are drawn from small sets, then one query runs *)

\* the longest hit list drawn
MaxSpheres == 2

Gray == Vec3(Frac(1, 2), Frac(1, 2), Frac(1, 2))

Gold == Vec3(Frac(4, 5), Frac(3, 5), Frac(1, 5))

SphereSet ==
    { Sphere(V(0, 0, -2), Num(1), Lambertian(Gray)),
      Sphere(V(0, 0, -3), Num(2), Metal(Gold)),
      Sphere(V(0, 0, -2), Num(-1), Dielectric(Frac(3, 2))),
      Sphere(V(0, 3, -2), Num(1), Metal(Gray)),
      Sphere(V(0, 0, 0), Num(1), Dielectric(Frac(3, 2))),
      Sphere(V(0, 0, -5), Num(1), Lambertian(Gold)) }

RaySet ==
    { Ray(V(0, 0, 0), V(0, 0, -1)),
      Ray(V(0, 0, 0), V(0, 0, -2)),
      Ray(V(0, 0, 0), V(0, 1, -1)),
      Ray(V(0, 3, 1), V(0, 0, -1)) }

\* <<t_min, t_max>>; the first is the interval ray_color asks for
IntervalSet ==
    { <<Frac(1, 1000), INFINITY>>,
      <<Zero, One>>,
      <<Num(2), Num(6)>>,
      <<Frac(1, 1000), Frac(1, 2)>> }

StaleRecord == HitRecord(V(9, 9, 9), V(0, 1, 0), Num(7), Metal(Gray), Some(TRUE))

WorldSet == UNION { [1..n -> SphereSet] : n \in 0..MaxSpheres }

\* the variables a specification has no use for stay as they are here
HitRest ==
    /\ ray = Ray(ORIGIN, X_HAT)
    /\ t_min = Frac(1, 1000) /\ t_max = INFINITY
    /\ rec = HitRecordEmpty
    /\ ret = FALSE

ColorRest ==
    /\ depth = 0 /\ rng = Rng(<<Zero>>) /\ color = V(0, 0, 0)
    /\ samples = 1 /\ rgb = <<0, 0, 0>>

PixelRest ==
    /\ camera = <<>> /\ width = 1 /\ height = 1
    /\ col = 0 /\ row = 0 /\ primary = <<>>

MainRest ==
    /\ pc = "none" /\ pixels = <<>> /\ file = <<>>
    /\ bands = <<>> /\ workers = <<>>
    /\ written = <<>> /\ computed = <<>>

TraceRest ==
    /\ scatter = <<>> /\ stack = <<>>
    /\ calls = [hit |-> 0, scatter |-> 0, recurse |-> 0]

CallRest == args = <<>> /\ result = <<>>

InitHit ==
    /\ ColorRest /\ PixelRest /\ MainRest /\ TraceRest /\ CallRest
    /\ world \in WorldSet
    /\ ray \in RaySet
    /\ \E iv \in IntervalSet : t_min = iv[1] /\ t_max = iv[2]
    /\ rec \in {HitRecordEmpty, StaleRecord}
    /\ ret = FALSE
    /\ op = <<"init">>

\* the query's boolean and the record it leaves in the caller's hands
Returns(q) == ret' = q.ret /\ rec' = q.rec

\* world.hit(ray, t_min, t_max, &mut rec)
HitListQuery ==
    /\ op = <<"init">>
    /\ Returns(HitListHit(world, ray, t_min, t_max, rec))
    /\ op' = <<"HitList">>
    /\ UNCHANGED <<callVars, world, ray, t_min, t_max, colorVars, pixelVars, traceVars, mainVars>>

\* world.inner[k].hit(ray, t_min, t_max, &mut rec)
SphereQuery(k) ==
    /\ op = <<"init">>
    /\ k \in 1..Len(world)
    /\ Returns(SphereHit(world[k], ray, t_min, t_max, rec))
    /\ op' = <<"Sphere", k>>
    /\ UNCHANGED <<callVars, world, ray, t_min, t_max, colorVars, pixelVars, traceVars, mainVars>>

NextHit ==
    \/ HitListQuery
    \/ \E k \in 1..MaxSpheres + 1 : SphereQuery(k)

SpecHit == InitHit /\ [][NextHit]_vars

-----------------------------------------------------------------------------
(* The hit list against its primitives, one by one *)

\* primitive k's own answer over the whole interval [t_min, t_max]
Alone(k) == SphereHit(world[k], ray, t_min, t_max, HitRecordEmpty)

\* the primitives whose own query succeeds
Hitters == {k \in 1..Len(world) : Alone(k).ret}

\* the hitters whose parameter is the one the list returned
Tied == {k \in Hitters : Alone(k).rec.t = rec.t}

First(S) == CHOOSE k \in S : \A j \in S : k <= j

Last(S) == CHOOSE k \in S : \A j \in S : j <= k

ListAnswered == op = <<"HitList">>

SphereAnswered == op[1] = "Sphere"

\* C1: HitList::hit returns true iff some primitive's own query over
\* [t_min, t_max] succeeds, and then the record's t is the least of the
\* primitives' own hit parameters.
C1_ClosestHit ==
    ListAnswered =>
        /\ ret <=> Hitters # {}
        /\ ret => /\ Tied # {}
                  /\ \A k \in Hitters : FLe(rec.t, Alone(k).rec.t)

\* C1's case: two primitives hit at different parameters and the nearer one
\* comes first in the list, so the later, farther one must be turned down
C1_Witness ==
    /\ ListAnswered /\ ret
    /\ \E j, k \in Hitters : j < k /\ FLt(Alone(j).rec.t, Alone(k).rec.t)

\* C2 as stated: on a tie at the least t the record is the first tied
\* primitive's.
C2_FirstTiedWins ==
    (ListAnswered /\ ret /\ Cardinality(Tied) >= 2) =>
        rec = Alone(First(Tied)).rec

\* C2, amended: on a tie at the least t the record (its material included) is
\* that of the last tied primitive in list order; each later primitive
\* reaching the same t replaces the record.
C2_LastTiedWins ==
    (ListAnswered /\ ret /\ Cardinality(Tied) >= 2) =>
        rec = Alone(Last(Tied)).rec

\* C2's case: a tie between primitives whose records differ
C2_Witness ==
    /\ ListAnswered /\ ret /\ Cardinality(Tied) >= 2
    /\ Alone(First(Tied)).rec # Alone(Last(Tied)).rec

\* the orders of a list of n primitives
Orders(n) == {f \in [1..n -> 1..n] : \A i, j \in 1..n : f[i] = f[j] => i = j}

Reordered(f) == [i \in 1..Len(world) |-> world[f[i]]]

\* the list's answer had the primitives been in order f (a miss leaves the
\* caller's record as it is, a hit overwrites all of it)
Under(f) == HitListHit(Reordered(f), ray, t_min, t_max, rec)

\* C3 as stated: the answer and the whole record are the same in every order.
C3_OrderIrrelevant ==
    ListAnswered =>
        \A f \in Orders(Len(world)) : Under(f).ret = ret /\ Under(f).rec = rec

\* C3, amended: hit or miss, t and p are the same in every order of the
\* primitives; normal, front_face and material are too unless two primitives
\* reach the same least t, and then they are the last such primitive's.
C3_OrderUpToTies ==
    ListAnswered =>
        \A f \in Orders(Len(world)) :
            \A u \in {Under(f)} :
                /\ u.ret = ret
                /\ ret => /\ u.rec.t = rec.t
                          /\ u.rec.p = rec.p
                          /\ u.rec = rec \/ Cardinality(Tied) # 1

\* C3's case: two primitives hit at different parameters, so some order
\* meets the nearer one first and another meets it last
C3_Witness ==
    /\ ListAnswered /\ ret /\ Cardinality(Tied) = 1
    /\ \E j, k \in Hitters : FLt(Alone(j).rec.t, Alone(k).rec.t)

\* the sphere that answered
Asked == world[op[2]]

\* the two roots as the claim writes them
SmallRoot == FDiv(FSub(FNeg(QuadHalfB(Asked, ray)), FSqrt(Discriminant(Asked, ray))), QuadA(ray))

LargeRoot == FDiv(FAdd(FNeg(QuadHalfB(Asked, ray)), FSqrt(Discriminant(Asked, ray))), QuadA(ray))

Within(t) == FLe(t_min, t) /\ FLe(t, t_max)

\* C4: Sphere::hit misses when the discriminant is negative or neither root
\* lies in [t_min, t_max]; otherwise it returns the smaller root if that lies
\* in the interval and the larger one only if not; so t_min <= t <= t_max.
C4_NearestRootInRange ==
    SphereAnswered =>
        /\ ~ret <=> \/ FLt(Discriminant(Asked, ray), Zero)
                    \/ ~Within(SmallRoot) /\ ~Within(LargeRoot)
        /\ ret => /\ rec.t = (IF Within(SmallRoot) THEN SmallRoot ELSE LargeRoot)
                  /\ Within(rec.t)

\* C4's case: both roots lie in the interval and differ
C4_Witness ==
    /\ SphereAnswered /\ ret
    /\ Within(SmallRoot) /\ Within(LargeRoot) /\ SmallRoot # LargeRoot

\* (p - center) / radius at the recorded point
Outward == VDiv(VSub(rec.p, Asked.center), Asked.r)

\* C5: after a successful Sphere::hit, front_face = (dir . outward < 0), the
\* normal is the outward normal when front_face and its negation otherwise,
\* and dir . normal <= 0; also for a negative radius.
C5_FaceNormal ==
    (SphereAnswered /\ ret) =>
        /\ rec.front_face = Some(FLt(Dot(ray.dir, Outward), Zero))
        /\ rec.normal = (IF rec.front_face = Some(TRUE) THEN Outward ELSE VNeg(Outward))
        /\ FLe(Dot(ray.dir, rec.normal), Zero)

\* C5's case: a hit on a sphere of negative radius, from outside its surface
C5_Witness ==
    /\ SphereAnswered /\ ret
    /\ FLt(Asked.r, Zero)
    /\ rec.front_face = Some(FALSE)
    /\ rec.normal = VNeg(Outward)

-----------------------------------------------------------------------------
(* ray_color on its own *)

MaxDepth == 2

\* scenario A: the sphere and the ground
SceneA ==
    << Sphere(V(0, 0, -1), Frac(1, 2), Lambertian(Gray)),
       Sphere(Vec3(Zero, Frac(-201, 2), Num(-1)), Num(100), Lambertian(Gray)) >>

\* scenario A's spheres; a metal sphere ahead and a glass one behind; nothing
SceneSet ==
    { SceneA,
      << Sphere(V(0, 0, -2), Num(1), Metal(Gold)),
         Sphere(V(0, 0, 3), Num(1), Dielectric(Frac(3, 2))) >>,
      << >> }

\* what the generator may be about to deliver
RngSet ==
    { [tape |-> t, pos |-> k] :
        t \in { << Frac(1, 4), Frac(3, 4), Frac(1, 4), Frac(1, 4), Frac(3, 4) >>,
                << Zero, Frac(1, 4), Frac(3, 4), Frac(1, 4) >> },
        k \in 1..4 }

\* a ray away from everything, and one the metal sphere sends up to the sky
ColorRays ==
    { Ray(V(0, 0, 0), V(0, 0, 1)),
      Ray(Vec3(Zero, Frac(3, 5), Zero), V(0, 0, -1)) }

InitColor ==
    /\ PixelRest /\ MainRest /\ TraceRest /\ CallRest
    /\ t_min = Frac(1, 1000) /\ t_max = INFINITY
    /\ rec = HitRecordEmpty /\ ret = FALSE
    /\ world \in SceneSet
    /\ ray \in RaySet \cup ColorRays
    /\ depth \in -2..MaxDepth
    /\ rng \in RngSet
    /\ color = V(9, 9, 9)
    /\ samples = 1 /\ rgb = <<0, 0, 0>>
    /\ op = <<"init">>

\* color = ray_color(&ray, &world, depth, &mut rng)
RayColorCall ==
    /\ op = <<"init">>
    /\ color' = RayColor(ray, world, depth, rng).color
    /\ rng' = RayColor(ray, world, depth, rng).rng
    /\ op' = <<"ray_color">>
    /\ UNCHANGED <<callVars, world, ray, t_min, t_max, rec, ret, depth, samples, rgb>>
    /\ UNCHANGED <<callVars, pixelVars, traceVars, mainVars>>

SpecColor == InitColor /\ [][RayColorCall]_vars

\* C6: ray_color called with depth <= 0, zero or negative, returns exactly
\* (0, 0, 0), whatever the ray and the world.
C6_DepthExhausted ==
    (op = <<"ray_color">> /\ depth <= 0) => color = V(0, 0, 0)

\* C6's case: a negative budget, and a ray that would have met a sphere
C6_Witness ==
    /\ op = <<"ray_color">> /\ depth < 0
    /\ HitListHit(world, ray, Frac(1, 1000), INFINITY, HitRecordEmpty).ret

-----------------------------------------------------------------------------
(* write_color_to_pixel_buffer on its own *)

MaxSamples == 2

\* accumulated channel values: quarters up to a little over the sample count,
\* and what a sum of non-finite samples leaves
ChannelSet ==
    {Frac(k, 4) : k \in 0..(4 * MaxSamples + 1)} \cup {INFINITY, NaN}

InitQuant ==
    /\ HitRest /\ PixelRest /\ MainRest /\ TraceRest /\ CallRest
    /\ world = <<>>
    /\ depth = 0 /\ rng = Rng(<<Zero>>)
    /\ color \in {Vec3(x, y, z) : x, y, z \in ChannelSet}
    /\ samples \in 1..MaxSamples
    /\ rgb = <<0, 0, 0>>
    /\ op = <<"init">>

\* pix_result = write_color_to_pixel_buffer(pixel_color, samples)
WriteColorCall ==
    /\ op = <<"init">>
    /\ rgb' = WriteColorToPixelBuffer(color, samples)
    /\ op' = <<"write_color">>
    /\ UNCHANGED <<callVars, hitVars, depth, rng, color, samples, pixelVars, traceVars, mainVars>>

SpecQuant == InitQuant /\ [][WriteColorCall]_vars

\* the channels of the accumulated color, in the order of the bytes
Channels == <<color.x, color.y, color.z>>

\* b = floor(256 * clamp(sqrt(n / (d * N)), 0, 0.999)), said without a root:
\* at or above 0.999 squared the byte is 255, below it b is the integer
\* with b^2 <= 65536 * n / (d * N) < (b+1)^2
FloorOfRoot(b, n, d) ==
    IF n * 1000000 >= 998001 * d * samples
    THEN b = 255
    ELSE /\ b * b * d * samples <= 65536 * n
         /\ 65536 * n < (b + 1) * (b + 1) * d * samples

\* C9: each byte is floor(256 * clamp(sqrt(c / N), 0, 0.999)) of its channel
\* sum c over N >= 1 samples and lies in 0..255; 0.25 with N = 1 gives 128.
C9_GammaQuantized ==
    op = <<"write_color">> =>
        \A k \in 1..3 :
            /\ rgb[k] \in 0..255
            /\ Channels[k] = INFINITY => rgb[k] = 255
            /\ IsFinite(Channels[k]) =>
                  FloorOfRoot(rgb[k], Channels[k][1], Channels[k][2])
            /\ (Channels[k] = Frac(1, 4) /\ samples = 1) => rgb[k] = 128

\* C9's case: scenario E's pixel, and with it a channel that reaches the cap
C9_Witness ==
    /\ op = <<"write_color">> /\ samples = 1
    /\ color.x = Frac(1, 4) /\ rgb[1] = 128
    /\ color.y = Frac(5, 4) /\ rgb[2] = 255

-----------------------------------------------------------------------------
(* One pixel of the render loop, on a scene and a camera handed to it *)

\* scenario A's camera
CameraA == CameraNew(Frac(16, 9), 90, V(0, 0, 0), V(0, 0, -1), V(0, 1, 0), Zero, One)

\* scenario A at width 200: the center pixel, one in the sky, one on the
\* ground, a corner; and main's own camera on a 2 x 2 image
PixelSet ==
    { [world |-> SceneA, camera |-> CameraA, width |-> 200, height |-> 112,
       col |-> p[1], row |-> p[2]] :
         p \in {<<100, 56>>, <<100, 111>>, <<100, 0>>, <<0, 0>>} }
    \cup
    { [world |-> w, width |-> 2, height |-> 2, col |-> 1, row |-> 0,
       camera |-> CameraNew(FDiv(Num(2), Num(2)), 20, V(13, 2, 3), V(0, 0, 0),
                            V(0, 1, 0), Frac(1, 10), Num(10))] :
         w \in SceneSet \ {SceneA} }

InitPixel ==
    /\ HitRest /\ MainRest /\ TraceRest /\ CallRest
    /\ \E px \in PixelSet :
          /\ world = px.world /\ camera = px.camera
          /\ width = px.width /\ height = px.height
          /\ col = px.col /\ row = px.row
    /\ samples \in 1..MaxSamples
    /\ depth \in 0..MaxDepth
    /\ rng \in RngSet
    /\ color = V(0, 0, 0) /\ rgb = <<0, 0, 0>> /\ primary = <<>>
    /\ op = <<"init">>

\* main.rs:97-104 for pixel (col, row)
PixelStep ==
    /\ op = <<"init">>
    /\ \E px \in {Pixel(camera, world, samples, depth, col, row, width, height, rng)} :
          /\ color' = px.color
          /\ rng' = px.rng
          /\ primary' = px.primary
          /\ rgb' = px.rgb
    /\ op' = <<"pixel">>
    /\ UNCHANGED <<callVars, hitVars, depth, samples, camera, width, height, col, row, mainVars,
                   traceVars>>

SpecPixel == InitPixel /\ [][PixelStep]_vars

\* scenario A's center pixel, rendered
CenterOfA ==
    /\ op = <<"pixel">>
    /\ world = SceneA /\ camera = CameraA
    /\ width = 200 /\ height = 112 /\ col = 100 /\ row = 56
    /\ samples = 1 /\ depth = 1

\* C8 as stated: scenario A's center pixel is written with more blue than red.
C8_CenterBlueOverRed == CenterOfA => rgb[3] > rgb[1]

\* C8, amended: scenario A's center pixel is written (0, 0, 0), blue equal to
\* red: the one scattered ray the depth allows is traced with depth 0.
C8_CenterBlack == CenterOfA => rgb = <<0, 0, 0>>

\* C8's case: the center pixel's primary ray meets the sphere at (0, 0, -1)
\* before anything else
C8_Witness ==
    /\ CenterOfA
    /\ SphereHit(world[1], primary[1][3], Frac(1, 1000), INFINITY, HitRecordEmpty).ret
    /\ HitListHit(world, primary[1][3], Frac(1, 1000), INFINITY, HitRecordEmpty).rec.p.z
         = SphereHit(world[1], primary[1][3], Frac(1, 1000), INFINITY, HitRecordEmpty).rec.p.z

-----------------------------------------------------------------------------
(* main (main.rs): the scene, the output file's header, the pixel buffer,   *)
(* one task per band on the pool's threads, then write_buffer              *)

\* the widest and the tallest image rendered
MaxWidth == 2

MaxHeight == 2

\* the threads of the pool that runs the bands' tasks
Threads == 2

\* format!("{}", n) of an unsigned n
RECURSIVE Decimal(_)
Decimal(n) ==
    IF n < 10 THEN <<"0", "1", "2", "3", "4", "5", "6", "7", "8", "9">>[n + 1]
    ELSE Decimal(n \div 10) \o Decimal(n % 10)

\* main.rs:84-86: what the three header writes carry
Header(w, h) ==
    << "P3\n", Decimal(w) \o " " \o Decimal(h) \o "\n", "255\n" >>

\* render.rs:63
PixelLine(pix) ==
    Decimal(pix[1]) \o " " \o Decimal(pix[2]) \o " " \o Decimal(pix[3]) \o "\n"

\* the element of index k (from 0) of a Vec or slice
Index(v, k) == v[k + 1]

\* pixels.chunks(3): the chunk of index k
Chunk(v, k) == << Index(v, 3 * k), Index(v, 3 * k + 1), Index(v, 3 * k + 2) >>

\* pixels.chunks_mut(len).enumerate(): band j is the len bytes from j * len on
Chunks(total, len) ==
    [ j \in 1..((total + len - 1) \div len) |->
        [ start |-> (j - 1) * len,
          len |-> IF total - (j - 1) * len < len THEN total - (j - 1) * len ELSE len,
          state |-> "queued" ] ]

\* main.rs:95
TaskCamera(w, h) ==
    CameraNew(FDiv(Num(w), Num(h)), 20, V(13, 2, 3), V(0, 0, 0), V(0, 1, 0),
              Frac(1, 10), Num(10))

\* the variates the generator of pool thread t yields
ThreadRng(t) ==
    IF t % 2 = 1 THEN Rng(<< Frac(1, 4), Frac(3, 4), Frac(1, 2) >>)
    ELSE Rng(<< Frac(1, 2), Frac(1, 4), Frac(7, 8) >>)

\* the variates main's generator may yield for the scene
SceneRngSet ==
    { Rng(<< Frac(1, 4), Frac(3, 4), Frac(9, 10), Frac(1, 2) >>) }

\* <<samples, depth>> of the command line: samples is a usize and may be 0,
\* depth an isize and may be negative
OptionSet == { <<1, 0>>, <<MaxSamples, 0>>, <<1, 1>>, <<0, 1>>, <<1, -1>> }

\* a pool thread: the band its task is on (None between tasks), the task's
\* column and camera, and the thread's generator
Worker(band, i, c, g) == [band |-> band, col |-> i, camera |-> c, rng |-> g]

InitRender ==
    /\ HitRest /\ TraceRest /\ CallRest
    /\ camera = <<>> /\ col = 0 /\ row = 0 /\ primary = <<>>
    /\ world = <<>>
    /\ width \in 0..MaxWidth
    /\ height \in 0..MaxHeight
    /\ \E o \in OptionSet : samples = o[1] /\ depth = o[2]
    /\ rng \in SceneRngSet
    /\ color = V(0, 0, 0) /\ rgb = <<0, 0, 0>>
    /\ pc = "scene"
    /\ pixels = <<>> /\ file = <<>> /\ bands = <<>>
    /\ workers = [t \in 1..Threads |-> Worker(None, 0, None, ThreadRng(t))]
    /\ written = <<>> /\ computed = <<>>
    /\ op = <<"init">>

\* main.rs:66
Scene ==
    /\ pc = "scene"
    /\ world' = RandomScene(rng)
    /\ pc' = "create"
    /\ op' = <<"random_scene">>
    /\ UNCHANGED <<callVars, ray, t_min, t_max, rec, ret, colorVars, pixelVars, traceVars,
                   pixels, file, bands, workers, written, computed>>

\* main.rs:81-82: File::create(..).unwrap() gives the file or panics
CreateFile ==
    /\ pc = "create"
    /\ \E ok \in BOOLEAN : pc' = IF ok THEN "header" ELSE "panicked"
    /\ file' = <<>>
    /\ op' = <<"create">>
    /\ UNCHANGED <<callVars, hitVars, colorVars, pixelVars, traceVars,
                   pixels, bands, workers, written, computed>>

\* main.rs:84-86: one write_all of the header; an Err leaves main by the ?
WriteHeader ==
    /\ pc = "header"
    /\ \E ok \in BOOLEAN :
          IF ok
          THEN /\ file' = Append(file, Header(width, height)[Len(file) + 1])
               /\ pc' = IF Len(file) = 2 THEN "alloc" ELSE "header"
          ELSE /\ file' = file
               /\ pc' = "failed"
    /\ op' = <<"header">>
    /\ UNCHANGED <<callVars, hitVars, colorVars, pixelVars, traceVars,
                   pixels, bands, workers, written, computed>>

\* main.rs:89-91: the zeroed buffer and its bands; chunks_mut panics on a chunk
\* size of 0
Allocate ==
    /\ pc = "alloc"
    /\ pixels' = [k \in 1..(width * height * 3) |-> 0]
    /\ written' = [k \in 1..(width * height * 3) |-> 0]
    /\ bands' = IF width = 0 THEN <<>> ELSE Chunks(width * height * 3, width * 3)
    /\ pc' = IF width = 0 THEN "panicked" ELSE "render"
    /\ op' = <<"alloc">>
    /\ UNCHANGED <<callVars, hitVars, colorVars, pixelVars, traceVars, file, workers, computed>>

\* main.rs:93-95: a thread of the pool starts the task of band j
TakeBand(t, j) ==
    /\ pc = "render"
    /\ workers[t].band = None
    /\ Index(bands, j).state = "queued"
    /\ bands' = [bands EXCEPT ![j + 1].state = "running"]
    /\ workers' = [workers EXCEPT
                     ![t] = Worker(Some(j), width - 1, TaskCamera(width, height),
                                   workers[t].rng)]
    /\ op' = <<"task", t, j>>
    /\ UNCHANGED <<callVars, hitVars, colorVars, pixelVars, traceVars, pc, pixels, file, written, computed>>

\* main.rs:105-107 with the index taken in the whole buffer, not in the band
BandByte_whole(band, i, k) == i * 3 + k

\* main.rs:105-107 with the pixels of a band one byte apart
BandByte_packed(band, i, k) == band.start + i + k

\* band[i * 3 + k]: the place in the buffer of byte k of the band's pixel i
BandByte(band, i, k) == band.start + i * 3 + k

\* main.rs:105-107: the buffer after the three stores of pixel i
BandStores(buf, band, i, pix) ==
    [ b \in DOMAIN buf |->
        IF \E k \in 0..2 : b = BandByte(band, i, k) + 1
        THEN pix[b - BandByte(band, i, 0)]
        ELSE buf[b] ]

\* the stores counted per byte
StoresCounted(cnt, band, i) ==
    [ b \in DOMAIN cnt |->
        cnt[b] + Cardinality({ k \in 0..2 : b = BandByte(band, i, k) + 1 }) ]

\* main.rs:96, 108: the task after pixel i, and the thread after the task's last
AfterPixel(w, px) ==
    IF w.col = 0 THEN Worker(None, 0, None, px.rng)
    ELSE Worker(w.band, w.col - 1, w.camera, px.rng)

\* main.rs:93 with every task drawing from the generator of the first thread
TaskRng_of_first(t) == workers[1].rng

\* main.rs:93: rand::thread_rng() in the task thread t runs is the generator
\* of that thread
TaskRng(t) == workers[t].rng

\* main.rs:96-108: one turn of the loop over i in the task thread t runs, on
\* pixel i of band j
BandPixel(t) ==
    /\ pc = "render"
    /\ workers[t].band # None
    /\ \E j \in {workers[t].band[1]}, i \in {workers[t].col} :
       \E px \in { Pixel(workers[t].camera, world, samples, depth, i, j,
                         width, height, TaskRng(t)) } :
          /\ pixels' = BandStores(pixels, Index(bands, j), i, px.rgb)
          /\ written' = StoresCounted(written, Index(bands, j), i)
          /\ computed' = (<<i, j>> :> px.rgb) @@ computed
          /\ workers' = [workers EXCEPT ![t] = AfterPixel(workers[t], px)]
          /\ bands' = IF i = 0 THEN [bands EXCEPT ![j + 1].state = "done"] ELSE bands
          /\ op' = <<"pixel", t, j, i>>
    /\ UNCHANGED <<callVars, hitVars, colorVars, pixelVars, traceVars, pc, file>>

\* main.rs:109 with for_each returning while tasks are still to run
Join_early ==
    /\ pc = "render"
    /\ pc' = "write"
    /\ op' = <<"join">>
    /\ UNCHANGED <<callVars, hitVars, colorVars, pixelVars, traceVars, pixels, file, bands, workers,
                   written, computed>>

\* main.rs:109: for_each returns when every band's task has
Join ==
    /\ pc = "render"
    /\ \A j \in DOMAIN bands : bands[j].state = "done"
    /\ pc' = "write"
    /\ op' = <<"join">>
    /\ UNCHANGED <<callVars, hitVars, colorVars, pixelVars, traceVars, pixels, file, bands, workers,
                   written, computed>>

\* render.rs:61-66 with the chunks taken first to last
WriteBuffer_forward ==
    /\ pc = "write"
    /\ IF Len(file) - 3 >= Len(pixels) \div 3
       THEN /\ pc' = "done"
            /\ file' = file
       ELSE \E ok \in BOOLEAN :
               IF ok
               THEN /\ file' = Append(file, PixelLine(Chunk(pixels, Len(file) - 3)))
                    /\ pc' = "write"
               ELSE /\ file' = file
                    /\ pc' = "failed"
    /\ op' = <<"write_buffer">>
    /\ UNCHANGED <<callVars, hitVars, colorVars, pixelVars, traceVars, pixels, bands, workers,
                   written, computed>>

\* render.rs:61-66 called at main.rs:111: one write_all of write_buffer, or
\* its end; an Err leaves main by the ?.  The n-th turn (from 0) of the loop
\* over pixels.chunks(3).rev() is on the chunk of index len / 3 - 1 - n
WriteBuffer ==
    /\ pc = "write"
    /\ IF Len(file) - 3 >= Len(pixels) \div 3
       THEN /\ pc' = "done"
            /\ file' = file
       ELSE \E ok \in BOOLEAN :
               IF ok
               THEN /\ file' = Append(file, PixelLine(Chunk(pixels, (Len(pixels) \div 3) - 1
                                                                 - (Len(file) - 3))))
                    /\ pc' = "write"
               ELSE /\ file' = file
                    /\ pc' = "failed"
    /\ op' = <<"write_buffer">>
    /\ UNCHANGED <<callVars, hitVars, colorVars, pixelVars, traceVars, pixels, bands, workers,
                   written, computed>>

NextRender ==
    \/ Scene
    \/ CreateFile
    \/ WriteHeader
    \/ Allocate
    \/ \E t \in 1..Threads, j \in 0..(Len(bands) - 1) : TakeBand(t, j)
    \/ \E t \in 1..Threads : BandPixel(t)
    \/ Join
    \/ WriteBuffer

SpecRender == InitRender /\ [][NextRender]_vars

\* C7: with maximum depth 0, whatever the width, the height and the samples
\* per pixel (all at least 1), every byte of the pixel buffer is 0 at every
\* moment of the run, every pixel computed is (0, 0, 0), and every pixel line
\* written to the file (the lines after the header's three) reads "0 0 0"
C7_BlackImage ==
    (depth = 0 /\ width >= 1 /\ height >= 1 /\ samples >= 1) =>
        /\ \A b \in DOMAIN pixels : pixels[b] = 0
        /\ \A p \in DOMAIN computed : computed[p] = <<0, 0, 0>>
        /\ \A k \in 4..Len(file) : file[k] = "0 0 0\n"

\* a run at depth 0 of the largest image with several samples per pixel has
\* rendered every pixel and written every line
C7_Witness ==
    /\ depth = 0 /\ pc = "done"
    /\ width = MaxWidth /\ height = MaxHeight /\ samples = MaxSamples
    /\ \A b \in DOMAIN written : written[b] = 1
    /\ Len(pixels) = MaxWidth * MaxHeight * 3
    /\ Len(file) = 3 + MaxWidth * MaxHeight

\* main.rs:89-91 have run
Allocated == pc \in {"render", "write", "done"}

\* main.rs:92-109 has returned
Joined == pc \in {"write", "done"}

\* C10: once allocated the buffer has W*H*3 bytes and there are H bands, band j
\* being the W*3 bytes from 3*j*W on; the color computed for column i of
\* scanline j is at bytes 3*(j*W + i), +1, +2 as (R, G, B) from the moment it
\* is stored; no byte is stored to twice, and when the render loop has returned
\* every pixel has been computed and every byte stored to exactly once
C10_BufferLayout ==
    /\ Allocated =>
          /\ Len(pixels) = width * height * 3
          /\ Len(bands) = height
          /\ \A j \in 0..(height - 1) :
                /\ Index(bands, j).start = 3 * j * width
                /\ Index(bands, j).len = width * 3
    /\ \A p \in DOMAIN computed :
          \A k \in 0..2 :
             Index(pixels, 3 * (p[2] * width + p[1]) + k) = computed[p][k + 1]
    /\ \A b \in DOMAIN written : written[b] <= 1
    /\ Joined =>
          /\ DOMAIN computed = (0..(width - 1)) \X (0..(height - 1))
          /\ \A b \in DOMAIN written : written[b] = 1

\* the largest image has been rendered and written, and two of its pixels
\* differ in color
C10_Witness ==
    /\ pc = "done"
    /\ width = MaxWidth /\ height = MaxHeight
    /\ \E p \in DOMAIN computed, q \in DOMAIN computed :
          /\ computed[p] # computed[q]
          /\ Chunk(pixels, q[2] * width + q[1]) = computed[q]

\* the bytes of the buffer that are band j's: 3*j*W <= b < 3*(j+1)*W
BytesOfBand(j) == { b \in 0..(Len(pixels) - 1) : 3 * j * width <= b /\ b < 3 * (j + 1) * width }

\* the bytes of band j stored to so far
StoredOfBand(j) == { b \in BytesOfBand(j) : Index(written, b) > 0 }

\* C11: a step stores to a buffer byte only as a turn of the task of one
\* scanline j, and then only to bytes in [3*j*W, 3*(j+1)*W); no task's step
\* depends on the buffer.  So when the tasks have all returned, whatever their
\* interleaving and their order of completion, the buffer holds at pixel
\* (i, j) the bytes computed for pixel (i, j).
C11_DisjointBands ==
    /\ [][\A b \in DOMAIN written :
            (written'[b] # written[b] \/ pixels'[b] # pixels[b]) =>
                /\ op'[1] = "pixel"
                /\ b - 1 \in BytesOfBand(op'[3])]_vars
    /\ [](Joined =>
            \A i \in 0..(width - 1), j \in 0..(height - 1) :
                Chunk(pixels, j * width + i) = computed[<<i, j>>])

\* two tasks are under way on two threads at once, each with a pixel stored
\* and a pixel still to store
C11_Witness ==
    /\ pc = "render"
    /\ \E j, k \in 0..(Len(bands) - 1) :
          /\ j # k
          /\ Index(bands, j).state = "running" /\ Index(bands, k).state = "running"
          /\ StoredOfBand(j) # {} /\ StoredOfBand(j) # BytesOfBand(j)
          /\ StoredOfBand(k) # {} /\ StoredOfBand(k) # BytesOfBand(k)

\* every scanline task has returned
TasksFinished == \A j \in DOMAIN bands : bands[j].state = "done"

\* C12 as stated: nothing, header included, is written to the file before
\* the parallel phase has joined.
C12_NoWriteBeforeJoin == file # <<>> => Joined

\* C12, amended: the file is written to only by main's own steps (the header
\* writes and write_buffer); the three header lines are written before the
\* buffer is allocated and the tasks start, nothing is written while the
\* tasks run, and a pixel line is written only when every task has returned.
C12_PixelLinesAfterJoin ==
    /\ [][file' # file => op'[1] \in {"header", "write_buffer"}]_vars
    /\ [](pc = "render" => file = Header(width, height))
    /\ [](Len(file) > 3 => pc \in {"write", "done", "failed"} /\ TasksFinished)

\* write_buffer is part way through the pixel lines of an image of several
\* bands
C12_Witness ==
    /\ pc = "write" /\ Len(bands) > 1
    /\ Len(file) > 3 /\ Len(file) < 3 + width * height

\* the n-th pixel line (from 0) of the file
LineOf(n) == file[4 + n]

\* C13: a run that succeeds leaves a file of the three header lines, with W
\* and H in the second, and W*H pixel lines "R G B"; which pixel a line holds
\* depends on the line's place alone, not on the order the tasks ran in: the
\* lines n*W .. n*W + W-1 are those of scanline H-1-n, so scanline H-1 comes
\* first and scanline 0 last (within a scanline, column W-1 comes first).
C13_RowsTopDown ==
    pc = "done" =>
        /\ Len(file) = 3 + width * height
        /\ SubSeq(file, 1, 3) = <<"P3\n", Decimal(width) \o " " \o Decimal(height) \o "\n",
                                  "255\n">>
        /\ \A n \in 0..(width * height - 1) :
              LineOf(n) = PixelLine(computed[<<width - 1 - (n % width),
                                              height - 1 - (n \div width)>>])

\* an image of several scanlines is written, and its top scanline's lines are
\* not its bottom scanline's
C13_Witness ==
    /\ pc = "done" /\ width = MaxWidth /\ height = MaxHeight
    /\ { LineOf(n) : n \in 0..(width - 1) }
         # { LineOf(n) : n \in (width * (height - 1))..(width * height - 1) }
    /\ \A i \in 0..(width - 1) :
          \E n \in 0..(width - 1) : LineOf(n) = PixelLine(computed[<<i, height - 1>>])

\* the pixels as one pool thread alone computes them, band 0 first, from the
\* n-th pixel on, g being the thread's generator and done the pixels so far
RECURSIVE OneThread(_, _, _)
OneThread(n, g, done) ==
    IF n >= width * height THEN done
    ELSE CHOOSE end \in
             { OneThread(n + 1, px.rng,
                         (<<width - 1 - (n % width), n \div width>> :> px.rgb) @@ done) :
                 px \in { Pixel(TaskCamera(width, height), world, samples, depth,
                                width - 1 - (n % width), n \div width,
                                width, height, g) } } : TRUE

\* the file write_buffer leaves for the pixels px
FileOf(px) ==
    Header(width, height)
    \o [ n \in 1..(width * height) |->
            PixelLine(px[<<width - 1 - ((n - 1) % width),
                           height - 1 - ((n - 1) \div width)>>]) ]

\* C14 as stated: with the width, the height, the samples, the depth and the
\* variates of every generator fixed, the bytes of the file a successful run
\* leaves are fixed too, whichever thread ran which task and in which order:
\* they are those of the run in which one thread runs every task.
C14_ByteIdentical ==
    pc = "done" => file = FileOf(OneThread(0, ThreadRng(1), <<>>))

\* a width, height or sample count that is not positive, or a negative depth
BadConfiguration == width <= 0 \/ height <= 0 \/ samples <= 0 \/ depth < 0

\* C15 as stated: with such a configuration the run never gets to rendering:
\* no task is started, no pixel is computed, no pixel line is written.
C15_RejectedBeforeRendering ==
    BadConfiguration =>
        /\ pc \notin {"render", "write", "done"}
        /\ \A j \in DOMAIN bands : bands[j].state = "queued"
        /\ computed = <<>>
        /\ Len(file) <= 3

\* C16 as stated: a failure to create the file, or of a write to it, ends
\* main with an error returned, never with a panic.
C16_FailureSurfaced ==
    op[1] \in {"create", "header", "write_buffer"} => pc # "panicked"

\* the scatter chain r0, r1, ... walked forward from ray r with generator g,
\* left being the rays the depth still allows and atts the attenuations of the
\* scatters so far: how it ends, and the sky color of the ray that missed
RECURSIVE ScatterChain(_, _, _, _, _)
ScatterChain(r, w, left, g, atts) ==
    IF left = 0 THEN [end |-> "exhausted", atts |-> atts, sky |-> V(0, 0, 0)]
    ELSE CHOOSE out \in
        { IF ~h.ret THEN [end |-> "missed", atts |-> atts, sky |-> Sky(r)]
          ELSE CHOOSE rest \in
              { IF ~sc.is_scattered
                THEN [end |-> "not scattered", atts |-> atts, sky |-> V(0, 0, 0)]
                ELSE ScatterChain(sc.scattered, w, left - 1, sc.rng,
                                  Append(atts, sc.attenuation)) :
                  sc \in {MatScatter(h.rec.material, r, h.rec, g)} } : TRUE :
            h \in {HitListHit(w, r, Frac(1, 1000), INFINITY, HitRecordEmpty)} } : TRUE

\* c times the attenuations, the last scatter's first
RECURSIVE Attenuated(_, _)
Attenuated(c, atts) ==
    IF atts = <<>> THEN c
    ELSE Attenuated(VMul(c, atts[Len(atts)]), SubSeq(atts, 1, Len(atts) - 1))

\* the accumulator's result at the end of a chain
FoldOf(chain) ==
    IF chain.end = "missed" THEN Attenuated(chain.sky, chain.atts) ELSE V(0, 0, 0)

\* C17: for D >= 1 ray_color returns what the walk along the scatter chain
\* gives: if ray r_k, k < D, is the first to miss and every hit before it
\* scattered, the sky color of r_k times the attenuations of the k scatters
\* (multiplied in, as the recursion does on its way back, from the last
\* scatter's to the first's); black if a hit does not scatter or D hits follow
\* one another.
C17_IterativeFold ==
    [][(op' = <<"ray_color">> /\ depth >= 1) =>
          color' = FoldOf(ScatterChain(ray, world, depth, rng, <<>>))]_vars

\* the ray's first hit is on metal
MetalFirst == HitListHit(world, ray, Frac(1, 1000), INFINITY, HitRecordEmpty)

\* ray_color has returned, for a ray the metal sphere reflected to the sky, the
\* sky's color times the metal's albedo
C17_Witness ==
    /\ op = <<"ray_color">> /\ depth = MaxDepth
    /\ MetalFirst.ret /\ MetalFirst.rec.material.kind = "Metal"
    /\ color # V(0, 0, 0)
    /\ color = VMul(Sky(MetalScatter(MetalFirst.rec.material, ray, MetalFirst.rec,
                                     rng).scattered),
                    MetalFirst.rec.material.albedo)

-----------------------------------------------------------------------------
(* ray_color call by call: the hit query, the material's scatter, the       *)
(* recursive call and the multiplication on its return are steps of their   *)
(* own; ray, depth and rec are those of the invocation that is running      *)

\* a ray that grazes the metal sphere, and one from inside the glass sphere
\* that meets its surface beyond the critical angle
TraceRays ==
    RaySet \cup ColorRays \cup
    { Ray(V(0, 1, 0), V(0, 0, -1)),
      Ray(Vec3(Zero, Frac(4, 5), Num(3)), V(0, 0, -1)) }

InitTrace ==
    /\ PixelRest /\ MainRest /\ TraceRest /\ CallRest
    /\ t_min = Frac(1, 1000) /\ t_max = INFINITY
    /\ rec = HitRecordEmpty /\ ret = FALSE
    /\ world \in SceneSet
    /\ ray \in TraceRays
    /\ depth \in -1..MaxDepth
    /\ rng \in RngSet
    /\ color = V(9, 9, 9)
    /\ samples = 1 /\ rgb = <<0, 0, 0>>
    /\ op = <<"init">>

\* render.rs:69-76 and 85-88: an invocation from its entry to the answer of
\* world.hit; it returns black when the depth is used up and the sky's color
\* when the ray misses
Query ==
    /\ op[1] \in {"init", "recurse"}
    /\ IF DepthExhausted(depth)
       THEN /\ rec' = HitRecordEmpty /\ ret' = ret
            /\ color' = V(0, 0, 0)
            /\ calls' = calls
            /\ op' = <<"return">>
       ELSE /\ Returns(HitListHit(world, ray, Frac(1, 1000), INFINITY, HitRecordEmpty))
            /\ calls' = [calls EXCEPT !.hit = @ + 1]
            /\ color' = IF ret' THEN color ELSE Sky(ray)
            /\ op' = IF ret' THEN <<"hit">> ELSE <<"return">>
    /\ UNCHANGED <<callVars, world, ray, t_min, t_max, depth, rng, samples, rgb,
                   scatter, stack, pixelVars, mainVars>>

\* render.rs:77-78: mat.scatter(ray, &rec, rng)
ScatterCall ==
    /\ op = <<"hit">>
    /\ scatter' = MatScatter(rec.material, ray, rec, rng)
    /\ rng' = scatter'.rng
    /\ calls' = [calls EXCEPT !.scatter = @ + 1]
    /\ op' = <<"scatter">>
    /\ UNCHANGED <<callVars, hitVars, depth, color, samples, rgb, stack, pixelVars, mainVars>>

\* render.rs:80 with the depth handed on as it is
Callee_same_depth(sc, d) == [ray |-> sc.scattered, depth |-> d]

\* render.rs:80: the arguments of the recursive call
Callee(sc, d) == [ray |-> sc.scattered, depth |-> d - 1]

\* render.rs:79-82: the recursive call on the scattered ray, the invocation
\* waiting for it with the attenuation; or Color::default() returned
Descend ==
    /\ op = <<"scatter">>
    /\ IF scatter.is_scattered
       THEN /\ stack' = Append(stack, [ray |-> ray, depth |-> depth,
                                       attenuation |-> scatter.attenuation])
            /\ ray' = Callee(scatter, depth).ray
            /\ depth' = Callee(scatter, depth).depth
            /\ calls' = [calls EXCEPT !.recurse = @ + 1]
            /\ color' = color
            /\ op' = <<"recurse">>
       ELSE /\ color' = V(0, 0, 0)
            /\ op' = <<"return">>
            /\ UNCHANGED <<ray, depth, stack, calls>>
    /\ UNCHANGED <<callVars, world, t_min, t_max, rec, ret, rng, samples, rgb, scatter,
                   pixelVars, mainVars>>

\* render.rs:80: the recursive call has returned; its color times the
\* attenuation is what the waiting invocation returns
Return ==
    /\ op = <<"return">>
    /\ stack # <<>>
    /\ color' = VMul(color, stack[Len(stack)].attenuation)
    /\ ray' = stack[Len(stack)].ray
    /\ depth' = stack[Len(stack)].depth
    /\ stack' = SubSeq(stack, 1, Len(stack) - 1)
    /\ op' = <<"return">>
    /\ UNCHANGED <<callVars, world, t_min, t_max, rec, ret, rng, samples, rgb, scatter, calls,
                   pixelVars, mainVars>>

NextTrace == Query \/ ScatterCall \/ Descend \/ Return

SpecTrace == InitTrace /\ [][NextTrace]_vars

\* D, the depth the outermost invocation was called with
OuterDepth == IF stack = <<>> THEN depth ELSE stack[1].depth

\* the depth of the invocation called by the k-th waiting one
CalledWith(k) == IF k = Len(stack) THEN depth ELSE stack[k + 1].depth

NonNegative(d) == IF d < 0 THEN 0 ELSE d

\* C18: in the course of ray_color(r, world, D, rng) at most max(D, 0) hit
\* queries and at most max(D, 0) scatter calls are made; every recursive call
\* has a depth one less than its caller's; the invocations form one chain (as
\* many recursive calls as invocations waiting or returned from, never two by
\* one invocation), and never more than D of them wait at a time.
C18_LinearBounded ==
    /\ calls.hit <= NonNegative(OuterDepth)
    /\ calls.scatter <= NonNegative(OuterDepth)
    /\ calls.recurse <= NonNegative(OuterDepth)
    /\ Len(stack) <= NonNegative(OuterDepth)
    /\ \A k \in 1..Len(stack) : CalledWith(k) = stack[k].depth - 1
    /\ op[1] # "return" => calls.recurse = Len(stack)

\* the whole budget is used: D hits in a row, each scattered, and the last
\* invocation has returned to the first
C18_Witness ==
    /\ op = <<"return">> /\ stack = <<>>
    /\ depth = MaxDepth
    /\ calls = [hit |-> MaxDepth, scatter |-> MaxDepth, recurse |-> MaxDepth]

\* the material has just answered for the hit in rec on the ray in ray
Scattered(kind) == op = <<"scatter">> /\ rec.material.kind = kind

\* C19: Metal's scatter returns the albedo as attenuation, the ray from the
\* hit point along reflect(unit(r_in.dir), normal), and scattered = true iff
\* that direction . normal > 0; an invocation whose scatter is not scattered
\* returns (0, 0, 0) without a recursive call, and from a return on no query
\* and no scatter is made: the path has ended.
C19_MetalScatter ==
    /\ [](Scattered("Metal") =>
            /\ scatter.attenuation = rec.material.albedo
            /\ scatter.scattered = Ray(rec.p, Reflect(UnitVector(ray.dir), rec.normal))
            /\ scatter.is_scattered <=>
                  FGt(Dot(Reflect(UnitVector(ray.dir), rec.normal), rec.normal), Zero))
    /\ [][(op = <<"scatter">> /\ ~scatter.is_scattered) =>
            /\ color' = V(0, 0, 0) /\ op' = <<"return">>
            /\ stack' = stack /\ calls' = calls]_vars
    /\ [][op = <<"return">> => op' = <<"return">> /\ calls' = calls]_vars

\* a ray grazed the metal sphere, the reflection was not scattered, and
\* ray_color, called with depth to spare, has returned black
C19_Witness ==
    /\ op = <<"return">> /\ stack = <<>> /\ depth = MaxDepth
    /\ ret /\ rec.material.kind = "Metal"
    /\ scatter # <<>> /\ ~scatter.is_scattered
    /\ Dot(scatter.scattered.dir, rec.normal) = Zero
    /\ color = V(0, 0, 0)

\* eta at the hit in rec
EtaHere == IF rec.front_face = Some(TRUE) THEN FDiv(One, rec.material.ir) ELSE rec.material.ir

\* cos(theta) at the hit in rec, as Dielectric's scatter takes it
CosHere == FNeg(FMin(Dot(UnitVector(ray.dir), rec.normal), One))

SinHere == FSqrt(FSub(One, FMul(CosHere, CosHere)))

\* eta * sin(theta) > 1
TotalInternalReflection == FGt(FMul(EtaHere, SinHere), One)

\* R0 = ((1 - eta) / (1 + eta))^2
SchlickR0 == Square(FDiv(FSub(One, EtaHere), FAdd(One, EtaHere)))

\* R(theta) = R0 + (1 - R0) (1 - cos(theta))^5
SchlickHere == FAdd(SchlickR0, FMul(FSub(One, SchlickR0), Pow5(FSub(One, CosHere))))

\* C20: Dielectric's scatter always returns scattered = true and the
\* attenuation (0.98, 0.98, 0.98); with eta = 1/ir on a front-face hit and ir
\* otherwise, the ray leaves the hit point along the reflection iff
\* eta * sin(theta) > 1 or the generator's next variate is less than
\* R(theta), and along the refraction otherwise.
C20_DielectricScatter ==
    [][(op' = <<"scatter">> /\ rec.material.kind = "Dielectric") =>
          /\ scatter'.is_scattered
          /\ scatter'.attenuation = Vec3(Frac(98, 100), Frac(98, 100), Frac(98, 100))
          /\ scatter'.scattered.origin = rec.p
          /\ scatter'.scattered.dir =
                IF TotalInternalReflection \/ FLt(Peek(rng, 0), SchlickHere)
                THEN Reflect(UnitVector(ray.dir), rec.normal)
                ELSE Refract(UnitVector(ray.dir), rec.normal, EtaHere)]_vars

\* a ray inside the glass met the surface beyond the critical angle and was
\* reflected
C20_Witness ==
    /\ Scattered("Dielectric")
    /\ rec.front_face = Some(FALSE)
    /\ TotalInternalReflection
    /\ scatter.is_scattered
    /\ scatter.scattered.dir = Reflect(UnitVector(ray.dir), rec.normal)
    /\ scatter.scattered.dir # Refract(UnitVector(ray.dir), rec.normal, EtaHere)

-----------------------------------------------------------------------------
(* One call of Vec3::refract, of the cosine of Dielectric::scatter or of    *)
(* Camera::get_ray, on arguments drawn for it                               *)

\* directions of length one, towards the surface and away from it, and
\* directions of other lengths
DirSet ==
    { V(0, 0, -1), Vec3(Frac(3, 5), Zero, Frac(-4, 5)),
      Vec3(Zero, Frac(4, 5), Frac(-3, 5)), V(0, 0, 1),
      V(1, 0, -2), V(0, 0, 2), Vec3(Zero, Frac(1, 2), Frac(-1, 2)) }

\* unit normals, and (p - center) / r as the rounding of p may leave it, a
\* little longer than 1
NormalSet == { V(0, 0, 1), V(0, 1, 0), V(0, 0, -1), Vec3(Zero, Zero, Frac(1025, 1024)) }

EtaSet == { One, Frac(2, 3), Frac(3, 2) }

RefractArgs ==
    { [fn |-> "refract", v |-> v, n |-> n, etai_over_etat |-> eta] :
        v \in DirSet, n \in NormalSet, eta \in EtaSet }

\* v.refract(n, etai_over_etat)
RefractCall ==
    /\ op = <<"init">>
    /\ args.fn = "refract"
    /\ result' = Refract(args.v, args.n, args.etai_over_etat)
    /\ op' = <<"refract">>
    /\ UNCHANGED <<args, hitVars, colorVars, pixelVars, mainVars, traceVars>>

\* material.rs:104-105: unit_dir and cos_theta, of a ray of direction v that
\* has hit where the normal is n
CosThetaCall ==
    /\ op = <<"init">>
    /\ args.fn = "refract"
    /\ result' = NegMinDot(UnitVector(args.v), args.n)
    /\ op' = <<"cos_theta">>
    /\ UNCHANGED <<args, hitVars, colorVars, pixelVars, mainVars, traceVars>>

\* a pinhole camera, a camera with a lens of radius 1, and main's camera on
\* a 2 x 2 image
CameraSet ==
    { CameraA,
      CameraNew(One, 90, V(0, 0, 0), V(0, 0, -1), V(0, 1, 0), Num(2), One),
      TaskCamera(2, 2) }

GetRayArgs ==
    { [fn |-> "get_ray", s |-> st[1], t |-> st[2]] :
        st \in { <<Zero, Zero>>, <<Frac(1, 2), Frac(1, 4)>>, <<One, One>>,
                 <<Frac(3, 2), Frac(1, 2)>> } }

InitCall ==
    /\ HitRest /\ MainRest /\ TraceRest
    /\ world = <<>>
    /\ depth = 0 /\ color = V(0, 0, 0) /\ samples = 1 /\ rgb = <<0, 0, 0>>
    /\ width = 1 /\ height = 1 /\ col = 0 /\ row = 0 /\ primary = <<>>
    /\ \/ /\ args \in RefractArgs
          /\ camera = <<>> /\ rng = Rng(<<Zero>>)
       \/ /\ args \in GetRayArgs
          /\ camera \in CameraSet /\ rng \in RngSet
    /\ result = <<>>
    /\ op = <<"init">>

\* camera.get_ray(s, t): the generator drawn from is the one the camera took
\* from thread_rng() when it was made (camera.rs:45), the thread's own
GetRayCall ==
    /\ op = <<"init">>
    /\ args.fn = "get_ray"
    /\ \E gr \in {GetRay(camera, args.s, args.t, rng)} :
          /\ result' = gr.ray
          /\ rng' = gr.rng
    /\ op' = <<"get_ray">>
    /\ UNCHANGED <<args, hitVars, depth, color, samples, rgb, pixelVars, mainVars,
                   traceVars>>

NextCall == RefractCall \/ CosThetaCall \/ GetRayCall

SpecCall == InitCall /\ [][NextCall]_vars

\* min(-v . n, 1): the cosine with the bound applied to -v . n
ClampedCos(v, n) == FMin(FNeg(Dot(v, n)), One)

\* -sqrt(1 - |r_perp|^2) * n
ParallelOf(n, r_perp) ==
    VScale(n, FNeg(FSqrt(FSub(One, LengthSquared(r_perp)))))

\* r_perp + r_par with r_perp = eta * (v + cos(theta) * n)
RefractOf(n, r_perp) == VAdd(r_perp, ParallelOf(n, r_perp))

\* C21: refract(v, n, eta) is r_perp + r_par with cos(theta) = min(-v . n, 1),
\* r_perp = eta * (v + cos(theta) * n) and r_par = -sqrt(1 - |r_perp|^2) * n,
\* and Dielectric::scatter uses the same cosine min(-u . n, 1)
C21_ClampedCosine ==
    /\ op = <<"refract">> =>
          result = RefractOf(args.n, RefractPerp(args.v, args.n,
                                                 ClampedCos(args.v, args.n),
                                                 args.etai_over_etat))
    /\ op = <<"cos_theta">> =>
          result = ClampedCos(UnitVector(args.v), args.n)

\* lower_left + s * horizontal + t * vertical
Target == VAdd(VAdd(camera.ll_corner, VScale(camera.horizontal, args.s)),
               VScale(camera.vertical, args.t))

\* the lens offset of the call about to be made
OffsetNext ==
    LensOffset(camera, VScale(RandomInUnitDisk(rng).val, camera.lens_radius))

\* a and b differ by less than 1/100 in every component
Near(a, b) ==
    /\ FLt(FAbs(FSub(a.x, b.x)), Frac(1, 100))
    /\ FLt(FAbs(FSub(a.y, b.y)), Frac(1, 100))
    /\ FLt(FAbs(FSub(a.z, b.z)), Frac(1, 100))

\* C22 as stated: the ray's origin is origin + offset and its point at
\* parameter 1 is lower_left + s * horizontal + t * vertical whatever the
\* offset; with aperture 0 the origin is lookfrom
C22_PointAtOne ==
    [][op' = <<"get_ray">> =>
          /\ result'.origin = VAdd(camera.origin, OffsetNext)
          /\ At(result', One) = Target
          /\ camera.lens_radius = Zero => result'.origin = camera.origin]_vars

\* C22, amended: the ray is Ray(origin + offset, lower_left + s * horizontal +
\* t * vertical - origin - offset) as the floating-point operations give it, so
\* its point at parameter 1 is the target up to their rounding; with aperture 0
\* the offset is zero, the origin is lookfrom and the direction is the target
\* minus lookfrom, whatever the lens sample
C22_GetRay ==
    [][op' = <<"get_ray">> =>
          /\ result'.origin = VAdd(camera.origin, OffsetNext)
          /\ result'.dir = VSub(VSub(Target, camera.origin), OffsetNext)
          /\ Near(At(result', One), Target)
          /\ camera.lens_radius = Zero =>
                /\ OffsetNext = V(0, 0, 0)
                /\ result'.origin = camera.origin
                /\ result'.dir = VSub(Target, camera.origin)]_vars

\* main's camera has sent a ray from off its origin whose point at parameter 1
\* is not the target to the last digit
C22_Witness ==
    /\ op = <<"get_ray">>
    /\ camera = TaskCamera(2, 2)
    /\ result.origin # camera.origin
    /\ At(result, One) # Target
    /\ Near(At(result, One), Target)

\* C23: generating a ray leaves the camera as it was, the generator it holds
\* included: the lens sample comes from the caller, not from inside the camera
C23_CameraUnchanged ==
    [][op' = <<"get_ray">> => camera' = camera /\ rng' = rng]_vars

-----------------------------------------------------------------------------
(* The screen coordinates of the render loop (SpecPixel) *)

InUnitInterval(x) == FLe(Zero, x) /\ FLe(x, One)

\* C24: the screen coordinates s and t of every sample handed to get_ray lie
\* in [0, 1]
C24_ScreenCoordsInUnitSquare ==
    \A k \in DOMAIN primary :
        InUnitInterval(primary[k][1]) /\ InUnitInterval(primary[k][2])

-----------------------------------------------------------------------------
(* The generators of the render (SpecRender) *)

\* C25: the generator of a pool thread is advanced by the tasks that thread
\* runs and by nothing else, it yields that thread's variates and no other
\* thread's, and main's generator, which the scene was drawn from, is left
\* alone from the first task to the join
C25_OwnGenerator ==
    /\ [][\A t \in DOMAIN workers :
             workers'[t].rng # workers[t].rng =>
                 /\ op'[1] = "pixel" /\ op'[2] = t
                 /\ rng' = rng]_vars
    /\ [](\A t \in DOMAIN workers :
             /\ workers[t].rng.tape = ThreadRng(t).tape
             /\ \A o \in DOMAIN workers : o # t => workers[o].rng.tape # workers[t].rng.tape
             /\ rng.tape # workers[t].rng.tape)
    /\ [][op'[1] \in {"task", "pixel", "join"} => rng' = rng]_vars

\* two tasks under way on two threads, each thread's generator advanced
C25_Witness ==
    /\ pc = "render"
    /\ Len(workers) > 1
    /\ \A t \in DOMAIN workers :
          /\ workers[t].band # None
          /\ workers[t].rng # ThreadRng(t)

-----------------------------------------------------------------------------
(* The columns of the written image (SpecRender) *)

\* C26: in the finished file the k-th pixel line of a row is the buffer's
\* pixel of column i = k of that row's scanline, so that the pixel sampled at
\* the camera's left edge is the leftmost of its row
C26_ColumnsLeftToRight ==
    pc = "done" =>
        \A n \in 0..(width * height - 1) :
            LineOf(n) = PixelLine(computed[<<n % width, height - 1 - (n \div width)>>])

-----------------------------------------------------------------------------
(* The hit record ray_color hands to scatter (SpecTrace) *)

\* C27: when ray_color calls a material's scatter the record's front_face is
\* Some(_), so Dielectric::scatter's unwrap finds a value; front_face is None
\* in the empty record alone, the one a query that hit nothing leaves
C27_FrontFaceKnown ==
    /\ op[1] \in {"hit", "scatter"} => rec.front_face \in {Some(TRUE), Some(FALSE)}
    /\ rec.front_face = None => rec = HitRecordEmpty /\ op[1] \notin {"hit", "scatter"}

\* scatter has been called on a hit of the glass sphere from inside it
C27_Witness ==
    /\ op = <<"scatter">>
    /\ rec.material.kind = "Dielectric"
    /\ rec.front_face = Some(FALSE)
    /\ scatter.is_scattered

-----------------------------------------------------------------------------
(* The caller's record across a hit query (SpecHit) *)

\* the record sphere k writes when it is asked alone over the query's interval
OwnRecord(k) == SphereHit(world[k], ray, t_min, t_max, HitRecordEmpty)

\* C28: a query of the list or of one sphere that returns false leaves the
\* caller's record as it was; one that returns true leaves a record whose p,
\* normal, t, front_face and material are all those of one intersection of
\* one primitive (of the sphere asked, when one sphere is asked)
C28_RecordOnlyOnHit ==
    [][op'[1] \in {"HitList", "Sphere"} =>
          /\ ~ret' => rec' = rec
          /\ ret' =>
                \E k \in 1..Len(world) :
                    /\ op'[1] = "Sphere" => k = op'[2]
                    /\ OwnRecord(k).ret
                    /\ rec' = OwnRecord(k).rec]_vars

\* the list has been asked with a record of an earlier query in hand, two
\* spheres in it, and has hit nothing: the earlier record is still there
C28_Witness ==
    /\ op = <<"HitList">>
    /\ Len(world) > 1
    /\ ~ret
    /\ rec = StaleRecord

====
